---- MODULE Spec2Model ----
(***************************************************************************)
(* Model of the glue code of LiveDiarization.ipynb: the WhisperTranscriber *)
(* class (transcribe, identify_speakers, __call__), suppress_stdout,       *)
(* concat, colorize_transcription and the reactive pipeline that chains    *)
(* them.  Time is counted in ticks of 0.025 s (the collar of concat is two *)
(* ticks), text is a sequence of one-character strings.                    *)
(***************************************************************************)
EXTENDS Integers, Sequences, FiniteSets, TLC

VARIABLES
    gOp, gIn, gOut,         \* the glue function last applied, its input, its result
    pc,                     \* where the transcriber's __call__ stands
    sys_stdout,             \* sys.stdout
    old_stdout,             \* suppress_stdout's saved stream
    entry_stdout,           \* sys.stdout as it was when the transcriber was built
    buffer,                 \* WhisperTranscriber._buffer
    callArgs,               \* the (diarization, waveform) of the call under way
    pending,                \* what whisper.transcribe did in the call under way
    callResult,             \* what the last __call__ returned or raised
    texts,                  \* transcription["text"] of each completed __call__
    prompts,                \* initial_prompt of each whisper.transcribe that returned
    calls,                  \* the number of __call__ invocations started
    status,                 \* the subscription: "subscribed", "error" or "completed"
    chunkBuffer,            \* the audio chunks buffer_with_count holds
    emitted,                \* the number of audio chunks the source has emitted
    sourceDone,             \* whether source.read() has finished
    printed,                \* what on_next has handed to rich.print
    traces,                 \* the number of traces on_error has printed
    raises,                 \* the number of exceptions raised by the stages
    runs,                   \* how many times each stage has run
    last                    \* what became of the last batch

glueVars == <<gOp, gIn, gOut>>

pipeVars == <<status, chunkBuffer, emitted, sourceDone, printed, traces, raises, runs, last>>

asrVars == <<pc, sys_stdout, old_stdout, entry_stdout, buffer, callArgs, pending,
             callResult, texts, prompts, calls>>

vars == <<glueVars, asrVars, pipeVars>>

(***************************************************************************)
(* Bounds of the model.                                                    *)
(***************************************************************************)
MaxTime == 2        \* latest word timestamp of a transcript segment, in ticks
MaxShift == 1       \* largest sliding_window.start of a waveform, in ticks
MaxSpeaker == 2     \* speaker labels are speaker0 .. speaker<MaxSpeaker>
MaxTurns == 2       \* speaker turns in one diarization
MaxSegments == 2    \* segments in one transcription
MaxChunks == 2      \* (annotation, waveform) pairs handed to concat
MaxSamples == 1     \* samples in one waveform
MaxCaptions == 2    \* captions handed to colorize_transcription
MaxColorSpeaker == 21   \* largest speaker id handed to colorize_transcription
MaxCalls == 3       \* __call__ invocations on one transcriber
MaxEmitted == 9     \* audio chunks the source emits

Min(S) == CHOOSE x \in S : \A y \in S : x <= y
Max(S) == CHOOSE x \in S : \A y \in S : x >= y

RECURSIVE SeqsUpTo(_, _)
SeqsUpTo(S, n) ==
    IF n = 0 THEN {<< >>}
    ELSE LET shorter == SeqsUpTo(S, n - 1)
         IN  shorter \cup {Append(q, x) : q \in {r \in shorter : Len(r) = n - 1}, x \in S}

(***************************************************************************)
(* Python strings, as sequences of characters.                             *)
(***************************************************************************)
DigitChars == <<"0", "1", "2", "3", "4", "5", "6", "7", "8", "9">>

\* the characters of the labels, in code point order
Alphabet == DigitChars \o <<"a", "e", "k", "p", "r", "s">>

CharCode(c) == CHOOSE i \in 1..Len(Alphabet) : Alphabet[i] = c

IsDigit(c) == \E i \in 1..Len(DigitChars) : DigitChars[i] = c

DigitVal(c) == (CHOOSE i \in 1..Len(DigitChars) : DigitChars[i] = c) - 1

\* str(n) of a non-negative integer
RECURSIVE Str(_)
Str(n) ==
    IF n < 10 THEN <<DigitChars[n + 1]>>
    ELSE Str(n \div 10) \o <<DigitChars[(n % 10) + 1]>>

\* int(s) of a string: its value in base 10, ValueError unless it is all digits
RECURSIVE DigitsValue(_)
DigitsValue(s) ==
    IF Len(s) = 0 THEN 0
    ELSE 10 * DigitsValue(SubSeq(s, 1, Len(s) - 1)) + DigitVal(s[Len(s)])

PyInt(s) ==
    IF Len(s) > 0 /\ \A i \in 1..Len(s) : IsDigit(s[i])
    THEN [exc |-> "none", value |-> DigitsValue(s)]
    ELSE [exc |-> "ValueError", value |-> 0]

\* s.find(sep), 1-based, 0 when sep does not occur
Find(s, sep) ==
    LET at == {i \in 1..(Len(s) - Len(sep) + 1) : SubSeq(s, i, i + Len(sep) - 1) = sep}
    IN  IF at = {} THEN 0 ELSE Min(at)

\* s.split(sep)
RECURSIVE Split(_, _)
Split(s, sep) ==
    LET i == Find(s, sep)
    IN  IF i = 0 THEN <<s>>
        ELSE <<SubSeq(s, 1, i - 1)>> \o Split(SubSeq(s, i + Len(sep), Len(s)), sep)

\* a < b in Python's string order
RECURSIVE StrLess(_, _)
StrLess(a, b) ==
    IF Len(b) = 0 THEN FALSE
    ELSE IF Len(a) = 0 THEN TRUE
    ELSE IF a[1] # b[1] THEN CharCode(a[1]) < CharCode(b[1])
    ELSE StrLess(Tail(a), Tail(b))

RECURSIVE SortedStrings(_)
SortedStrings(S) ==
    IF S = {} THEN << >>
    ELSE LET m == CHOOSE x \in S : \A y \in S \ {x} : StrLess(x, y)
         IN  <<m>> \o SortedStrings(S \ {m})

SpeakerWord == <<"s", "p", "e", "a", "k", "e", "r">>

\* the label the diarizer gives speaker n
SpeakerLabel(n) == SpeakerWord \o Str(n)

(***************************************************************************)
(* pyannote.core Annotation: a set of speaker turns [label, start, end).   *)
(***************************************************************************)
Collar == 2

\* Segment(start, end) is empty unless start < end
SegmentNonEmpty(start, end) == start < end

\* Crop with a turn that only touches the segment kept (as an empty turn)
CropTouching(ann, start, end) ==
    {[label |-> t.label,
      start |-> Max({t.start, start}),
      end |-> Min({t.end, end})] :
        t \in {u \in ann : Max({u.start, start}) <= Min({u.end, end})}}

\* Annotation.crop(Segment(start, end)): the turns cut to the segment
Crop(ann, start, end) ==
    IF ~SegmentNonEmpty(start, end) THEN {}
    ELSE {[label |-> t.label,
           start |-> Max({t.start, start}),
           end |-> Min({t.end, end})] :
             t \in {u \in ann : SegmentNonEmpty(Max({u.start, start}), Min({u.end, end}))}}

\* Annotation.labels(): the sorted list of the labels
Labels(ann) == SortedStrings({t.label : t \in ann})

\* the ticks a label is active in
LabelTicks(ann, label) ==
    UNION {t.start .. (t.end - 1) : t \in {u \in ann : u.label = label}}

\* Annotation.label_duration(label): the duration of the label's timeline
LabelDuration(ann, label) == Cardinality(LabelTicks(ann, label))

\* np.argmax of a non-empty list: the first position (0-based) of the maximum
ArgMax(xs) ==
    Min({i \in 1..Len(xs) : \A j \in 1..Len(xs) : xs[j] <= xs[i]}) - 1

(***************************************************************************)
(* WhisperTranscriber.identify_speakers                                    *)
(***************************************************************************)
Sentinel == -1

\* the position of the label in the list of one label, in place of its number
LabelNumberAsPosition(label) == [exc |-> "none", value |-> 0]

\* int(label.split("speaker")[1])
LabelNumber(label) ==
    LET parts == Split(label, SpeakerWord)
    IN  IF Len(parts) < 2 THEN [exc |-> "IndexError", value |-> 0]
        ELSE PyInt(parts[2])

\* the body of the loop, for one segment: the caption, or the exception raised
SegmentCaption(segment, diarization, time_shift) ==
    IF Len(segment.words) = 0
    THEN [exc |-> "IndexError", speaker |-> Sentinel, text |-> segment.text]
    ELSE
    LET start == time_shift + segment.words[1].start
        end == time_shift + segment.words[Len(segment.words)].end
        dia == Crop(diarization, start, end)
        speakers == Labels(dia)
        num_speakers == Len(speakers)
    IN  IF num_speakers = 0
        THEN [exc |-> "none", speaker |-> Sentinel, text |-> segment.text]
        ELSE IF num_speakers = 1
        THEN LET spk_id == LabelNumber(speakers[1])
             IN  [exc |-> spk_id.exc, speaker |-> spk_id.value, text |-> segment.text]
        ELSE LET max_speaker ==
                     ArgMax([i \in 1..num_speakers |-> LabelDuration(dia, speakers[i])])
             IN  [exc |-> "none", speaker |-> max_speaker, text |-> segment.text]

\* the loop with the captions of the segments no speaker was found for left out
RECURSIVE CaptionsFromKnownOnly(_, _, _, _)
CaptionsFromKnownOnly(segments, diarization, time_shift, speaker_captions) ==
    IF Len(segments) = 0 THEN [exc |-> "none", value |-> speaker_captions]
    ELSE LET caption == SegmentCaption(Head(segments), diarization, time_shift)
         IN  IF caption.exc # "none" THEN [exc |-> caption.exc, value |-> << >>]
             ELSE CaptionsFromKnownOnly(Tail(segments), diarization, time_shift,
                     IF caption.speaker = Sentinel THEN speaker_captions
                     ELSE Append(speaker_captions,
                                 [speaker |-> caption.speaker, text |-> caption.text]))

RECURSIVE CaptionsFrom(_, _, _, _)
CaptionsFrom(segments, diarization, time_shift, speaker_captions) ==
    IF Len(segments) = 0 THEN [exc |-> "none", value |-> speaker_captions]
    ELSE LET caption == SegmentCaption(Head(segments), diarization, time_shift)
         IN  IF caption.exc # "none" THEN [exc |-> caption.exc, value |-> << >>]
             ELSE CaptionsFrom(Tail(segments), diarization, time_shift,
                               Append(speaker_captions,
                                      [speaker |-> caption.speaker, text |-> caption.text]))

identify_speakers(transcription, diarization, time_shift) ==
    CaptionsFrom(transcription.segments, diarization, time_shift, << >>)

(***************************************************************************)
(* concat                                                                  *)
(***************************************************************************)
\* Annotation.update(other): the turns of both
Update(annotation, ann) == annotation \cup ann

\* the ticks of a label once the pauses shorter than collar are filled: a
\* tick between two active ticks less than collar apart is filled
FilledTicks(ann, label, collar) ==
    LET active == LabelTicks(ann, label)
    IN  active \cup
        {t \in UNION {(a + 1) .. (a + collar - 1) : a \in active} :
            \E a \in (t - collar) .. (t - 1) : \E b \in (t + 1) .. (t + collar) :
               a \in active /\ b \in active /\ (b - 1) - a < collar}

\* Annotation.support(collar): per label, the maximal regions left once the
\* pauses shorter than collar are merged
Support(ann, collar) ==
    UNION {LET filled == FilledTicks(ann, label, collar)
               ends == {e \in filled : (e + 1) \notin filled}
           IN  {[label |-> label, start |-> s,
                 end |-> Min({e \in ends : e >= s}) + 1] :
                  s \in {x \in filled : (x - 1) \notin filled}} :
           label \in {t.label : t \in ann}}

\* the three parameters taken as start, duration, step
SlidingWindowStartFirst(duration, step, start) ==
    [duration |-> step, step |-> start, start |-> duration]

\* SlidingWindow(duration, step, start): its parameters in that order
SlidingWindow(duration, step, start) ==
    [duration |-> duration, step |-> step, start |-> start]

\* SlidingWindowFeature(data, window)
SlidingWindowFeature(data, window) == [data |-> data, sliding_window |-> window]

\* the loop of concat: the annotation and the list of sample arrays
RECURSIVE ConcatLoop(_, _, _)
ConcatLoop(chunks, annotation, data) ==
    IF Len(chunks) = 0 THEN [annotation |-> annotation, data |-> data]
    ELSE ConcatLoop(Tail(chunks),
                    Update(annotation, Head(chunks).ann),
                    Append(data, Head(chunks).wav.data))

\* np.concatenate(arrays, axis=0)
RECURSIVE NpConcatenate(_)
NpConcatenate(arrays) ==
    IF Len(arrays) = 0 THEN << >>
    ELSE Head(arrays) \o NpConcatenate(Tail(arrays))

NoWaveform == SlidingWindowFeature(<< >>, SlidingWindow(0, 0, 0))

concat(chunks, collar) ==
    IF Len(chunks) = 0
    THEN [exc |-> "IndexError", ann |-> {}, wav |-> NoWaveform]
    ELSE LET first_waveform == chunks[1].wav
             looped == ConcatLoop(chunks, {}, << >>)
             annotation == Support(looped.annotation, collar)
             window == SlidingWindow(first_waveform.sliding_window.duration,
                                     first_waveform.sliding_window.step,
                                     first_waveform.sliding_window.start)
             data == NpConcatenate(looped.data)
         IN  [exc |-> "none", ann |-> annotation,
              wav |-> SlidingWindowFeature(data, window)]

(***************************************************************************)
(* colorize_transcription                                                  *)
(***************************************************************************)
Palette ==
    <<"bright_red", "bright_blue", "bright_green", "orange3", "deep_pink1",
      "yellow2", "magenta", "cyan", "bright_magenta", "dodger_blue2">>

\* the palette, not doubled
colorsOnce == Palette

\* colors = 2 * [...]
colors == Palette \o Palette

\* list[i] of Python: from the end when i is negative, IndexError out of range
PyIndex(list, i) ==
    IF 0 <= i /\ i < Len(list) THEN [exc |-> "none", value |-> list[i + 1]]
    ELSE IF -Len(list) <= i /\ i < 0
    THEN [exc |-> "none", value |-> list[Len(list) + i + 1]]
    ELSE [exc |-> "IndexError", value |-> ""]

\* the body of the loop, for one caption: the line appended to result
ColorizeLine(caption) ==
    IF caption.speaker = Sentinel
    THEN [exc |-> "none", value |-> caption.text]
    ELSE LET color == PyIndex(colors, caption.speaker)
         IN  [exc |-> color.exc, value |-> <<"[", color.value, "]">> \o caption.text]

RECURSIVE ColorizeLoop(_, _)
ColorizeLoop(transcription, result) ==
    IF Len(transcription) = 0 THEN [exc |-> "none", value |-> result]
    ELSE LET line == ColorizeLine(Head(transcription))
         IN  IF line.exc # "none" THEN [exc |-> line.exc, value |-> << >>]
             ELSE ColorizeLoop(Tail(transcription), Append(result, line.value))

\* sep.join(lines)
RECURSIVE Join(_, _)
Join(sep, lines) ==
    IF Len(lines) = 0 THEN << >>
    ELSE IF Len(lines) = 1 THEN lines[1]
    ELSE lines[1] \o sep \o Join(sep, Tail(lines))

colorize_transcription(transcription) ==
    LET looped == ColorizeLoop(transcription, << >>)
    IN  IF looped.exc # "none" THEN [exc |-> looped.exc, value |-> << >>]
        ELSE [exc |-> "none", value |-> Join(<<"\n">>, looped.value)]

(***************************************************************************)
(* The inputs the glue functions are applied to.                           *)
(***************************************************************************)
RECURSIVE SubsetsUpTo(_, _)
SubsetsUpTo(S, n) ==
    IF n = 0 THEN {{}}
    ELSE LET smaller == SubsetsUpTo(S, n - 1)
         IN  smaller \cup {A \cup {x} : A \in smaller, x \in S}

SpeakerIds == 0 .. MaxSpeaker

\* the turns a diarization is made of: a speaker label and a non-empty interval
TurnSet ==
    {t \in [label : {SpeakerLabel(n) : n \in SpeakerIds},
            start : 0 .. MaxTime,
            end : 0 .. MaxTime] : t.start < t.end}

Diarizations == SubsetsUpTo(TurnSet, MaxTurns)

TextChoices == {<<"a">>, <<"b">>}

\* the words of a segment: one word, or a first and a last word; a word ends no
\* earlier than it starts, and the last word starts where the first ends
WordLists ==
    {<<w>> : w \in {x \in [start : 0 .. MaxTime, end : 0 .. MaxTime] : x.start <= x.end}}
    \cup
    {<<[start |-> t[1], end |-> t[2]], [start |-> t[2], end |-> t[3]]>> :
        t \in {u \in (0 .. MaxTime) \X (0 .. MaxTime) \X (0 .. MaxTime) :
                  u[1] <= u[2] /\ u[2] <= u[3]}}

\* the segments of a transcription follow each other in time; each has one of
\* the given word lists
RECURSIVE SegmentListsFrom(_, _, _)
SegmentListsFrom(from, n, wordLists) ==
    IF n = 0 THEN {<< >>}
    ELSE {<< >>} \cup
         UNION {{<<[text |-> t, words |-> w]>> \o rest :
                    rest \in SegmentListsFrom(w[Len(w)].end, n - 1, wordLists)} :
                t \in TextChoices, w \in {x \in wordLists : x[1].start >= from}}

\* transcription["text"] is the text of the segments, one after the other
RECURSIVE SegmentsText(_)
SegmentsText(segments) ==
    IF Len(segments) = 0 THEN << >>
    ELSE Head(segments).text \o SegmentsText(Tail(segments))

TranscriptionOf(segs) == [text |-> SegmentsText(segs), segments |-> segs]

\* transcriptions of at most one segment
OneSegmentTranscriptions ==
    {TranscriptionOf(segs) : segs \in SegmentListsFrom(0, 1, WordLists)}

\* transcriptions of up to MaxSegments segments, of one word each
OneWordTranscriptions ==
    {TranscriptionOf(segs) :
        segs \in SegmentListsFrom(0, MaxSegments, {w \in WordLists : Len(w) = 1})}

\* diarizations of at most one turn
OneTurnDiarizations == SubsetsUpTo(TurnSet, 1)

NoInput == [none |-> TRUE]
NoOutput == [exc |-> "none", value |-> << >>]

GlueInit ==
    /\ gOp = "none"
    /\ gIn = NoInput
    /\ gOut = NoOutput

(***************************************************************************)
(* The pipeline: source.stream.pipe(rearrange_audio_stream,                *)
(* buffer_with_count, map(diarizer), map(concat), filter, starmap(asr),    *)
(* map(colorize_transcription)).subscribe(on_next, on_error).  The source  *)
(* pushes each chunk through the whole chain before it emits the next.     *)
(***************************************************************************)
\* batch_size = int(transcription_duration // config.step)
batch_size == 4

\* config.step, 0.5 s, in ticks
Step == 20

Stages == {"diarizer", "concat", "filter", "asr", "colorize", "print"}

NoBatch ==
    [size |-> 0, ran |-> {}, raisedAt |-> "none", exc |-> "none", passed |-> FALSE,
     ann |-> {}, samples |-> << >>, text |-> << >>]

PipeInit ==
    /\ status = "subscribed"
    /\ chunkBuffer = << >>
    /\ emitted = 0
    /\ sourceDone = FALSE
    /\ printed = << >>
    /\ traces = 0
    /\ raises = 0
    /\ runs = [s \in Stages |-> 0]
    /\ last = NoBatch

\* the k-th chunk of rearrange_audio_stream: its samples and where it starts
AudioChunk(k) ==
    [data |-> <<k>>,
     sliding_window |-> [duration |-> 1, step |-> 1, start |-> k * Step]]

\* what the diarizer may say of one chunk: nobody speaks, or one speaker does,
\* through the whole step or up to one tick before its end
DiarizerChoices ==
    {[speaks |-> FALSE, speaker |-> 0, len |-> 0]} \cup
    [speaks : {TRUE}, speaker : {0, MaxSpeaker}, len : {Step - 1, Step}]

ChunkDiarization(chunk, choice) ==
    IF ~choice.speaks THEN {}
    ELSE {[label |-> SpeakerLabel(choice.speaker),
           start |-> chunk.sliding_window.start,
           end |-> chunk.sliding_window.start + choice.len]}

\* Annotation.get_timeline().duration()
TimelineDuration(ann) == Cardinality(UNION {t.start .. (t.end - 1) : t \in ann})

\* a batch with no speech let through as well
HasSpeechOrNone(ann) == TimelineDuration(ann) >= 0

\* the predicate of ops.filter
HasSpeech(ann) == TimelineDuration(ann) > 0

\* whisper.load_model(name): os.path.isfile(name) raises TypeError unless name
\* is a string or a path
LoadModel(name) ==
    IF name.type = "str" THEN [exc |-> "none"] ELSE [exc |-> "TypeError"]

\* WhisperTranscriber.__init__(model, device)
WhisperTranscriberInit(model, device) ==
    LET loaded == LoadModel(model)
    IN  IF loaded.exc # "none"
        THEN [exc |-> loaded.exc, type |-> "none", value |-> << >>]
        ELSE [exc |-> "none", type |-> "WhisperTranscriber", value |-> << >>]

\* asr = WhisperTranscriber, the class: asr(diarization, waveform) builds a
\* transcriber with the diarization as model and the waveform as device
asr(diarization, waveform) ==
    WhisperTranscriberInit([type |-> "Annotation", value |-> diarization],
                           [type |-> "SlidingWindowFeature", value |-> waveform])

\* ops.map(colorize_transcription) on what the stage before it emitted
ColorizeStage(item) ==
    IF item.type # "list" THEN [exc |-> "TypeError", value |-> << >>]
    ELSE colorize_transcription(item.value)

\* the stages from concat on, on the pairs the diarizer returned
AfterDiarizer(pairs) ==
    LET merged == concat(pairs, Collar)
        base == [NoBatch EXCEPT !.size = Len(pairs)]
    IN  IF merged.exc # "none"
        THEN [base EXCEPT !.ran = {"diarizer", "concat"}, !.raisedAt = "concat",
                          !.exc = merged.exc]
        ELSE
        LET kept == [base EXCEPT !.ann = merged.ann, !.samples = merged.wav.data]
        IN  IF ~HasSpeech(merged.ann)
            THEN [kept EXCEPT !.ran = {"diarizer", "concat", "filter"}]
            ELSE
            LET item == asr(merged.ann, merged.wav)
                passed == [kept EXCEPT !.passed = TRUE]
            IN  IF item.exc # "none"
                THEN [passed EXCEPT !.ran = {"diarizer", "concat", "filter", "asr"},
                                    !.raisedAt = "asr", !.exc = item.exc]
                ELSE
                LET colored == ColorizeStage(item)
                IN  IF colored.exc # "none"
                    THEN [passed EXCEPT
                             !.ran = {"diarizer", "concat", "filter", "asr", "colorize"},
                             !.raisedAt = "colorize", !.exc = colored.exc]
                    ELSE [passed EXCEPT !.ran = Stages, !.text = colored.value]

\* the diarizer raised on a batch of n chunks
DiarizerRaised(n) ==
    [NoBatch EXCEPT !.size = n, !.ran = {"diarizer"}, !.raisedAt = "diarizer",
                    !.exc = "RuntimeError"]

\* the subscription goes on after on_error
StatusResubscribed == "subscribed"

\* on_error ends the subscription: the observer stops and the chain is disposed
StatusAfterError == "error"

\* what a batch does to the subscriber: on_next prints the text, on_error
\* prints the trace and the subscription ends; a dropped batch does neither
Deliver(outcome, endStatus) ==
    /\ last' = outcome
    /\ runs' = [s \in Stages |-> runs[s] + (IF s \in outcome.ran THEN 1 ELSE 0)]
    /\ IF outcome.raisedAt # "none"
       THEN /\ raises' = raises + 1
            /\ traces' = traces + 1
            /\ status' = StatusAfterError
            /\ printed' = printed
       ELSE /\ raises' = raises
            /\ traces' = traces
            /\ status' = endStatus
            /\ printed' = IF "print" \in outcome.ran
                          THEN Append(printed, outcome.text) ELSE printed

\* the outcomes of a batch of chunks: the diarizer raises, or returns one
\* (annotation, waveform) pair per chunk and the later stages run
BatchOutcomes(batch) ==
    {DiarizerRaised(Len(batch))} \cup
    {AfterDiarizer([k \in 1 .. Len(batch) |->
                       [ann |-> ChunkDiarization(batch[k], choices[k]), wav |-> batch[k]]]) :
        choices \in [1 .. Len(batch) -> DiarizerChoices]}

\* the source emits a chunk that does not fill the batch
OnNextBuffered ==
    /\ ~sourceDone
    /\ emitted < MaxEmitted
    /\ status = "subscribed"
    /\ Len(chunkBuffer) + 1 < batch_size
    /\ emitted' = emitted + 1
    /\ chunkBuffer' = Append(chunkBuffer, AudioChunk(emitted))
    /\ UNCHANGED <<sourceDone, status, printed, traces, raises, runs, last>>
    /\ UNCHANGED <<glueVars, asrVars>>

\* the source emits the chunk that fills the batch: the batch goes through
\* the stages
OnNextBatch ==
    /\ ~sourceDone
    /\ emitted < MaxEmitted
    /\ status = "subscribed"
    /\ Len(chunkBuffer) + 1 = batch_size
    /\ emitted' = emitted + 1
    /\ chunkBuffer' = << >>
    /\ \E outcome \in BatchOutcomes(Append(chunkBuffer, AudioChunk(emitted))) :
          Deliver(outcome, "subscribed")
    /\ UNCHANGED sourceDone
    /\ UNCHANGED <<glueVars, asrVars>>

\* the source emits a chunk after the subscription ended: nobody observes it
OnNextDisposed ==
    /\ ~sourceDone
    /\ emitted < MaxEmitted
    /\ status # "subscribed"
    /\ emitted' = emitted + 1
    /\ UNCHANGED <<sourceDone, status, chunkBuffer, printed, traces, raises, runs, last>>
    /\ UNCHANGED <<glueVars, asrVars>>

\* the source ends: buffer_with_count emits the chunks it holds, if any, as a
\* last batch, and the subscription completes unless that batch raised
OnCompleted ==
    /\ ~sourceDone
    /\ sourceDone' = TRUE
    /\ chunkBuffer' = << >>
    /\ IF status = "subscribed" /\ Len(chunkBuffer) > 0
       THEN \E outcome \in BatchOutcomes(chunkBuffer) : Deliver(outcome, "completed")
       ELSE /\ status' = IF status = "subscribed" THEN "completed" ELSE status
            /\ UNCHANGED <<printed, traces, raises, runs, last>>
    /\ UNCHANGED emitted
    /\ UNCHANGED <<glueVars, asrVars>>

Next == OnNextBuffered \/ OnNextBatch \/ OnNextDisposed \/ OnCompleted

(***************************************************************************)
(* suppress_stdout and WhisperTranscriber.transcribe / __call__            *)
(***************************************************************************)
StdoutChoices == {"terminal", "notebook"}

NoCall == [none |-> TRUE]
NoPending == [exc |-> "none", transcription |-> [text |-> << >>, segments |-> << >>]]

\* WhisperTranscriber.__init__ with a loaded model: the prompt buffer is empty
AsrInit ==
    /\ pc = "idle"
    /\ entry_stdout \in StdoutChoices
    /\ sys_stdout = entry_stdout
    /\ old_stdout = "unset"
    /\ buffer = << >>
    /\ callArgs = NoCall
    /\ pending = NoPending
    /\ callResult = NoOutput
    /\ texts = << >>
    /\ prompts = << >>
    /\ calls = 0

\* the transcriber as built, no glue function applied, the pipeline subscribed
Init == GlueInit /\ AsrInit /\ PipeInit

\* the same, with the terminal as sys.stdout
InitOnTerminal == Init /\ entry_stdout = "terminal"

\* the diarizations and waveforms a transcriber is called with
CallDiarizations ==
    SubsetsUpTo({[label |-> SpeakerLabel(n), start |-> 0, end |-> MaxTime] :
                    n \in {0, MaxSpeaker}}, 1)

CallWaveforms ==
    {[data |-> <<0>>, sliding_window |-> [duration |-> 1, step |-> 1, start |-> start]] :
        start \in {0, MaxShift}}

\* what whisper.transcribe may return: segments of one word each, one tick long,
\* one after the other
WhisperOutputs ==
    {TranscriptionOf(segs) :
        segs \in {[k \in 1 .. Len(ts) |->
                     [text |-> ts[k],
                      words |-> <<[start |-> Min({k - 1, MaxTime}),
                                   end |-> Min({k, MaxTime})]>>]] :
                  ts \in SeqsUpTo(TextChoices, MaxSegments)}}

\* __call__ enters transcribe, which enters the block of suppress_stdout:
\* sys.stdout is saved and replaced by the null device
EnterSuppress ==
    /\ pc = "idle"
    /\ calls < MaxCalls
    /\ \E diarization \in CallDiarizations, waveform \in CallWaveforms :
          callArgs' = [diarization |-> diarization, waveform |-> waveform]
    /\ old_stdout' = sys_stdout
    /\ sys_stdout' = "devnull"
    /\ calls' = calls + 1
    /\ callResult' = NoOutput
    /\ pc' = "in_block"
    /\ UNCHANGED <<entry_stdout, buffer, pending, texts, prompts, glueVars, pipeVars>>

\* whisper.transcribe(..., initial_prompt=self._buffer) returns a transcription
WhisperReturns ==
    /\ pc = "in_block"
    /\ \E transcription \in WhisperOutputs :
          pending' = [exc |-> "none", transcription |-> transcription]
    /\ prompts' = Append(prompts, buffer)
    /\ pc' = "block_ended"
    /\ UNCHANGED <<sys_stdout, old_stdout, entry_stdout, buffer, callArgs, callResult,
                   texts, calls, glueVars, pipeVars>>

\* whisper.transcribe raises
WhisperRaises ==
    /\ pc = "in_block"
    /\ pending' = [exc |-> "RuntimeError", transcription |-> NoPending.transcription]
    /\ pc' = "block_ended"
    /\ UNCHANGED <<sys_stdout, old_stdout, entry_stdout, buffer, callArgs, callResult,
                   texts, prompts, calls, glueVars, pipeVars>>

\* sys.stdout is put back only when the block ends without an exception
StdoutRestoredOnReturn(exc, saved, current) == IF exc = "none" THEN saved ELSE current

\* the finally clause of suppress_stdout: sys.stdout = old_stdout, whether the
\* block returned or raised
StdoutAfterBlock(exc, saved, current) == saved

\* the buffer replaced by the new text
BufferReplaced(_buffer, text) == text

\* self._buffer += transcription["text"]
BufferAfterCall(_buffer, text) == _buffer \o text

\* the block of suppress_stdout ends and the rest of __call__ runs: an
\* exception of whisper.transcribe leaves __call__; otherwise the buffer takes
\* the text, the speakers are identified and the captions returned
LeaveSuppress ==
    /\ pc = "block_ended"
    /\ sys_stdout' = StdoutAfterBlock(pending.exc, old_stdout, sys_stdout)
    /\ IF pending.exc # "none"
       THEN /\ callResult' = [exc |-> pending.exc, value |-> << >>]
            /\ UNCHANGED <<buffer, texts>>
       ELSE LET transcription == pending.transcription
                time_shift == callArgs.waveform.sliding_window.start
            IN  /\ buffer' = BufferAfterCall(buffer, transcription.text)
                /\ callResult' = identify_speakers(transcription, callArgs.diarization,
                                               time_shift)
                /\ texts' = IF callResult'.exc = "none"
                            THEN Append(texts, transcription.text) ELSE texts
    /\ pending' = NoPending
    /\ callArgs' = NoCall
    /\ pc' = "idle"
    /\ UNCHANGED <<old_stdout, entry_stdout, prompts, calls, glueVars, pipeVars>>

NextTranscriber == EnterSuppress \/ WhisperReturns \/ WhisperRaises \/ LeaveSuppress

SpecTranscriber == Init /\ [][NextTranscriber]_vars

(***************************************************************************)
(* identify_speakers applied to a transcription, a diarization and a time  *)
(* shift.                                                                  *)
(***************************************************************************)
ApplyIdentifySpeakers ==
    /\ UNCHANGED <<asrVars, pipeVars>>
    /\ gOp = "none"
    /\ \E time_shift \in 0 .. MaxShift :
          \E pair \in (OneSegmentTranscriptions \X Diarizations) \cup
                      (OneWordTranscriptions \X OneTurnDiarizations) :
             /\ gIn' = [transcription |-> pair[1], diarization |-> pair[2],
                        time_shift |-> time_shift]
             /\ gOut' = identify_speakers(pair[1], pair[2], time_shift)
    /\ gOp' = "identify_speakers"

NextIdentify == ApplyIdentifySpeakers

SpecIdentify == InitOnTerminal /\ [][NextIdentify]_vars

\* the time range of segment i of the transcription identify_speakers was given
RangeStart(i) == gIn.time_shift + gIn.transcription.segments[i].words[1].start

RangeEnd(i) ==
    LET words == gIn.transcription.segments[i].words
    IN  gIn.time_shift + words[Len(words)].end

\* the speakers with a turn that shares time with the range of segment i
OverlappingSpeakers(i) ==
    {n \in SpeakerIds :
        \E t \in gIn.diarization :
            /\ t.label = SpeakerLabel(n)
            /\ \E k \in RangeStart(i) .. (RangeEnd(i) - 1) : t.start <= k /\ k < t.end}

\* the time speaker n is active inside the range of segment i
ActiveDuration(i, n) ==
    Cardinality({k \in RangeStart(i) .. (RangeEnd(i) - 1) :
                    \E t \in gIn.diarization :
                        t.label = SpeakerLabel(n) /\ t.start <= k /\ k < t.end})

Identified == gOp = "identify_speakers"

SegmentIndexes == 1 .. Len(gIn.transcription.segments)

\* C1: for every segment in whose range two or more speakers are active, the
\* caption carries the number N of the speaker "speakerN" whose active
\* duration in the range is strictly greater than that of every other
\* speaker present.
C1_DominantSpeakerChosen ==
    Identified =>
        /\ gOut.exc = "none"
        /\ Len(gOut.value) = Len(gIn.transcription.segments)
        /\ \A i \in SegmentIndexes :
              Cardinality(OverlappingSpeakers(i)) >= 2 =>
                 \A n \in OverlappingSpeakers(i) :
                    (\A m \in OverlappingSpeakers(i) \ {n} :
                        ActiveDuration(i, n) > ActiveDuration(i, m))
                    => gOut.value[i].speaker = n

\* C2: for every segment in whose range exactly one speaker "speakerN" is
\* active, the caption carries N.
C2_SingleSpeakerLabel ==
    Identified =>
        /\ gOut.exc = "none"
        /\ Len(gOut.value) = Len(gIn.transcription.segments)
        /\ \A i \in SegmentIndexes :
              \A n \in SpeakerIds :
                 OverlappingSpeakers(i) = {n} => gOut.value[i].speaker = n

C2_Witness ==
    /\ Identified
    /\ gIn.time_shift > 0
    /\ \E i \in SegmentIndexes :
          /\ Cardinality(gIn.diarization) = 2
          /\ OverlappingSpeakers(i) = {MaxSpeaker}
          /\ gOut.value[i].speaker = MaxSpeaker

\* C3: a segment whose range shares no time with any speaker turn gets the
\* sentinel -1, and a segment whose range shares time with exactly one
\* speaker never gets -1.
C3_SentinelIffNoSpeaker ==
    Identified =>
        /\ gOut.exc = "none"
        /\ Len(gOut.value) = Len(gIn.transcription.segments)
        /\ \A i \in SegmentIndexes :
              /\ OverlappingSpeakers(i) = {} => gOut.value[i].speaker = Sentinel
              /\ Cardinality(OverlappingSpeakers(i)) = 1
                    => gOut.value[i].speaker # Sentinel

C3_Witness ==
    /\ Identified
    /\ gIn.diarization # {}
    /\ \E i \in SegmentIndexes, j \in SegmentIndexes :
          /\ RangeStart(i) < RangeEnd(i)
          /\ OverlappingSpeakers(i) = {}
          /\ gOut.value[i].speaker = Sentinel
          /\ Cardinality(OverlappingSpeakers(j)) = 1
          /\ gOut.value[j].speaker # Sentinel

(***************************************************************************)
(* concat applied to a list of (annotation, waveform) pairs.               *)
(***************************************************************************)
SampleChoices == {0, 1}

WindowShapes == {<<1, 1>>, <<2, 1>>}

Waveforms ==
    {[data |-> data,
      sliding_window |-> [duration |-> shape[1], step |-> shape[2], start |-> start]] :
        data \in SeqsUpTo(SampleChoices, MaxSamples),
        shape \in WindowShapes,
        start \in 0 .. MaxShift}

ChunkAnnotations == {{}, {[label |-> SpeakerLabel(0), start |-> 0, end |-> 1]}}

ChunkSet == {[ann |-> a, wav |-> w] : a \in ChunkAnnotations, w \in Waveforms}

ApplyConcat ==
    /\ UNCHANGED <<asrVars, pipeVars>>
    /\ gOp = "none"
    /\ \E n \in 0 .. MaxChunks : \E chunks \in [1 .. n -> ChunkSet] :
          /\ gIn' = [chunks |-> chunks]
          /\ gOut' = concat(chunks, Collar)
    /\ gOp' = "concat"

NextConcat == ApplyConcat

SpecConcat == InitOnTerminal /\ [][NextConcat]_vars

\* the number of samples of the chunks before chunk i
RECURSIVE SamplesBefore(_)
SamplesBefore(i) ==
    IF i <= 1 THEN 0
    ELSE SamplesBefore(i - 1) + Len(gIn.chunks[i - 1].wav.data)

\* C5: for a non-empty list of pairs, the waveform concat returns has as many
\* samples as the input waveforms together, holds their samples in input
\* order, and has the start, duration and step of the first waveform's window.
C5_ConcatWaveform ==
    (gOp = "concat" /\ Len(gIn.chunks) > 0) =>
        LET n == Len(gIn.chunks)
            first == gIn.chunks[1].wav.sliding_window
        IN  /\ gOut.exc = "none"
            /\ Len(gOut.wav.data) = SamplesBefore(n + 1)
            /\ \A i \in 1 .. n : \A j \in 1 .. Len(gIn.chunks[i].wav.data) :
                  gOut.wav.data[SamplesBefore(i) + j] = gIn.chunks[i].wav.data[j]
            /\ gOut.wav.sliding_window.start = first.start
            /\ gOut.wav.sliding_window.duration = first.duration
            /\ gOut.wav.sliding_window.step = first.step

C5_Witness ==
    /\ gOp = "concat"
    /\ Len(gIn.chunks) = 2
    /\ gIn.chunks[1].wav.data = <<1>>
    /\ gIn.chunks[2].wav.data = <<0>>
    /\ gIn.chunks[1].wav.sliding_window # gIn.chunks[2].wav.sliding_window
    /\ gIn.chunks[1].wav.sliding_window.duration # gIn.chunks[1].wav.sliding_window.start
    /\ gOut.wav.data = <<1, 0>>

(***************************************************************************)
(* colorize_transcription applied to a list of captions.                   *)
(***************************************************************************)
CaptionSet == [speaker : Sentinel .. MaxColorSpeaker, text : TextChoices]

ApplyColorize ==
    /\ UNCHANGED <<asrVars, pipeVars>>
    /\ gOp = "none"
    /\ \E n \in 0 .. MaxCaptions : \E transcription \in [1 .. n -> CaptionSet] :
          /\ gIn' = [transcription |-> transcription]
          /\ gOut' = colorize_transcription(transcription)
    /\ gOp' = "colorize_transcription"

NextColorize == ApplyColorize

SpecColorize == InitOnTerminal /\ [][NextColorize]_vars

Colorized == gOp = "colorize_transcription"

\* the line of a caption: its text, tagged with the palette entry at its
\* speaker id modulo the palette length unless the speaker is the sentinel
ModuloLine(caption) ==
    IF caption.speaker = Sentinel THEN caption.text
    ELSE <<"[", Palette[(caption.speaker % Len(Palette)) + 1], "]">> \o caption.text

ModuloText ==
    Join(<<"\n">>, [i \in 1 .. Len(gIn.transcription) |-> ModuloLine(gIn.transcription[i])])

\* C4, as stated: every caption with speaker id s >= 0, however large, is tagged
\* with the palette entry at s modulo 10 and a result is always returned; a
\* caption of the sentinel speaker is its text alone.
C4_AnySpeakerColored ==
    Colorized => (gOut.exc = "none" /\ gOut.value = ModuloText)

\* C4, amended: every caption with speaker id 0 <= s < 20 is tagged with the
\* palette entry at s modulo 10 and a caption of the sentinel speaker is its
\* text alone; with a caption of speaker id s >= 20 the function raises
\* IndexError and returns nothing.
C4_TwentySpeakersColored ==
    Colorized =>
        IF \E i \in 1 .. Len(gIn.transcription) :
              gIn.transcription[i].speaker >= 2 * Len(Palette)
        THEN gOut.exc = "IndexError"
        ELSE gOut.exc = "none" /\ gOut.value = ModuloText

C4_Witness ==
    /\ Colorized
    /\ Len(gIn.transcription) = 2
    /\ gIn.transcription[1].speaker = 2 * Len(Palette) - 1
    /\ gIn.transcription[2].speaker = Sentinel
    /\ gOut.exc = "none"
    /\ gOut.value = <<"[", "dodger_blue2", "]">> \o gIn.transcription[1].text
                       \o <<"\n">> \o gIn.transcription[2].text

\* C6: once a stage has raised, on_error has run exactly once and printed the
\* trace and the subscription has ended; the step in which a stage raises
\* prints no caption, and from then on no stage runs and nothing is printed.
C6_ErrorEndsStream ==
    /\ [](/\ traces = raises
          /\ raises <= 1
          /\ (raises = 1) <=> (status = "error")
          /\ last.raisedAt # "none" => status = "error")
    /\ [][/\ raises' > raises => printed' = printed
          /\ status = "error" =>
                (runs' = runs /\ printed' = printed /\ traces' = traces
                 /\ status' = "error")]_vars

C6_Witness ==
    /\ status = "error"
    /\ traces = 1
    /\ last.raisedAt = "diarizer"
    /\ runs["diarizer"] = 2
    /\ emitted = 2 * batch_size + 1

\* C7: every batch that passes the speech filter is turned by starmap(asr)
\* into a list of captions, which is colorized and printed through on_next.
C7_SpeechBatchPrinted ==
    last.passed =>
        /\ last.raisedAt = "none"
        /\ "print" \in last.ran
        /\ Len(printed) > 0
        /\ printed[Len(printed)] = last.text

\* C9: a batch whose merged annotation has no speech is dropped by the filter:
\* in that step the transcription stage does not run, the prompt buffer is
\* unchanged, nothing is printed, and the subscription does not end in error.
C9_SilentBatchDropped ==
    [][(/\ runs'["filter"] = runs["filter"] + 1
        /\ \A t \in last'.ann : t.end <= t.start)
       => /\ runs'["asr"] = runs["asr"]
          /\ buffer' = buffer
          /\ calls' = calls
          /\ printed' = printed
          /\ traces' = traces
          /\ status' # "error"
          /\ (status' = "completed") => sourceDone']_vars

C9_Witness ==
    /\ runs["filter"] = 2
    /\ runs["diarizer"] = 2
    /\ runs["asr"] = 0
    /\ last.size = batch_size
    /\ last.ann = {}
    /\ last.samples = <<4, 5, 6, 7>>
    /\ status = "subscribed"
    /\ printed = << >>

(***************************************************************************)
(* The transcriber called again and again.                                 *)
(***************************************************************************)
RECURSIVE Flatten(_)
Flatten(seqs) == IF Len(seqs) = 0 THEN << >> ELSE Head(seqs) \o Flatten(Tail(seqs))

IsPrefix(a, b) == Len(a) <= Len(b) /\ SubSeq(b, 1, Len(a)) = a

\* C8: the prompt buffer starts empty; after k completed calls it is the k
\* transcription texts one after the other in call order; the k-th
\* transcription is given the first k-1 texts as its prompt; every value of
\* the buffer is a prefix of every later one.
C8_PromptBufferAccumulates ==
    /\ [](/\ calls = 0 => buffer = << >>
          /\ buffer = Flatten(texts)
          /\ Len(prompts) \in {Len(texts), Len(texts) + 1}
          /\ \A k \in 1 .. Len(prompts) :
                prompts[k] = Flatten(SubSeq(texts, 1, k - 1)))
    /\ [][IsPrefix(buffer, buffer')]_vars

C8_Witness ==
    /\ pc = "idle"
    /\ calls = 3
    /\ Len(texts) = 2
    /\ texts[1] = <<"a", "b">>
    /\ texts[2] = <<"b">>
    /\ buffer = <<"a", "b", "b">>
    /\ prompts = << << >>, <<"a", "b">> >>

\* C10: sys.stdout is the null device exactly while the block of
\* suppress_stdout is running, and once the block has ended, by a return or by
\* an exception, it is again the stream it was on entry.
C10_StdoutRestored ==
    /\ (sys_stdout = "devnull") <=> (pc \in {"in_block", "block_ended"})
    /\ pc = "idle" => sys_stdout = entry_stdout
    /\ pc \in {"in_block", "block_ended"} => old_stdout = entry_stdout

C10_Witness ==
    /\ pc = "idle"
    /\ callResult.exc = "RuntimeError"
    /\ entry_stdout = "notebook"
    /\ sys_stdout = "notebook"

(***************************************************************************)
(* identify_speakers applied to a transcription, a diarization and a time  *)
(* shift, and colorize_transcription applied to the captions it returns,   *)
(* as WhisperTranscriber.__call__ and the map that follows it do.          *)
(***************************************************************************)
\* the captions of identify_speakers, then the text colorize_transcription
\* makes of them; an exception of the first ends the computation
Captioning(transcription, diarization, time_shift) ==
    LET speaker_transcriptions == identify_speakers(transcription, diarization, time_shift)
    IN  IF speaker_transcriptions.exc # "none"
        THEN [exc |-> speaker_transcriptions.exc, captions |-> << >>, colored |-> << >>]
        ELSE LET text == colorize_transcription(speaker_transcriptions.value)
             IN  [exc |-> text.exc, captions |-> speaker_transcriptions.value,
                  colored |-> text.value]

ApplyCaptioning ==
    /\ UNCHANGED <<asrVars, pipeVars>>
    /\ gOp = "none"
    /\ \E time_shift \in 0 .. MaxShift :
          \E pair \in (OneSegmentTranscriptions \X Diarizations) \cup
                      (OneWordTranscriptions \X OneTurnDiarizations) :
             /\ gIn' = [transcription |-> pair[1], diarization |-> pair[2],
                        time_shift |-> time_shift]
             /\ gOut' = Captioning(pair[1], pair[2], time_shift)
    /\ gOp' = "captioning"

NextCaptioning == ApplyCaptioning

SpecCaptioning == InitOnTerminal /\ [][NextCaptioning]_vars

Captioned == gOp = "captioning"

\* text.split("\n")
OutputLines(text) == Split(text, <<"\n">>)

\* the line is the text alone, or the text behind one color tag of the palette
IsLineOf(line, text) ==
    \/ line = text
    \/ \E i \in 1 .. Len(Palette) : line = <<"[", Palette[i], "]">> \o text

\* C11: identify_speakers returns one caption per segment of the
\* transcription, in the order of the segments, each with the text of its
\* segment unchanged, so as many captions as segments; the text
\* colorize_transcription makes of these captions has one line per caption,
\* in the same order, each line being the text of its caption with or without
\* a color tag before it (no line at all, the empty text, for no caption).
C11_OneCaptionPerSegment ==
    Captioned =>
        LET segments == gIn.transcription.segments
            lines == OutputLines(gOut.colored)
        IN  /\ gOut.exc = "none"
            /\ Len(gOut.captions) = Len(segments)
            /\ \A i \in 1 .. Len(segments) : gOut.captions[i].text = segments[i].text
            /\ IF Len(gOut.captions) = 0 THEN gOut.colored = << >>
               ELSE /\ Len(lines) = Len(gOut.captions)
                    /\ \A i \in 1 .. Len(lines) :
                          IsLineOf(lines[i], gOut.captions[i].text)

C11_Witness ==
    /\ Captioned
    /\ Len(gIn.transcription.segments) = 2
    /\ gIn.transcription.segments[1].text = <<"a">>
    /\ gIn.transcription.segments[2].text = <<"b">>
    /\ gOut.captions = <<[speaker |-> 1, text |-> <<"a">>],
                         [speaker |-> Sentinel, text |-> <<"b">>]>>
    /\ gOut.colored = <<"[", "bright_blue", "]", "a", "\n", "b">>

(***************************************************************************)
(* The pipeline, from its subscription on.                                 *)
(***************************************************************************)
Spec == InitOnTerminal /\ [][Next]_vars

====
